---- MODULE Spec2Model ----
(***************************************************************************)
(* threadSafeSet of shreve/golang-set (src/threadsafe.go): a set guarded   *)
(* by an embedded sync.RWMutex.  Every method is a short straight-line     *)
(* program of lock calls around one delegation to the unsynchronized set;  *)
(* a process executes the program of its call one instruction at a time.   *)
(***************************************************************************)
EXTENDS Integers, Sequences, FiniteSets, TLC

\* Elements are 1..MaxElem.
MaxElem == 2
\* Number of concurrent Add callers of the distinct-element scenario.
NAdders == 3

Elems == 1..MaxElem
Sets == {"S", "T"}
\* A Set of another implementation (not a *threadSafeSet), as an argument.
Foreign == "U"
\* Results[p] names the threadSafeSet that the call of process p constructs.
Results == <<"R1", "R2", "R3", "R4", "R5", "R6", "R7", "R8">>

VARIABLES
  op,       \* op[p]: the call process p runs: [kind, set, other, elem, elems]
  pc,       \* pc[p]: index of p's next instruction in Code(op[p])
  ret,      \* ret[p]: the value the call returns
  s,        \* s[x]: membership of the inner threadUnsafeSet of set x;
            \* x is S, T or a set constructed by a call
  readers,  \* readers[x][p]: read locks of x's RWMutex held by p
  writer,   \* writer[x]: process inside x.Lock()/holding it (0: none)
  granted,  \* granted[x]: writer[x] has been granted exclusive access
  visited,  \* visited[p]: elements a loop of p has already handled
  stopped,  \* stopped[p]: the stop channel of p's iterator is closed
  closed,   \* closed[p]: the element channel of p's iterator is closed
  delivered,\* delivered[p]: elements the consumer of p's iterator received
  hist,     \* hist[p]: lock and channel events of p, in order
  fatal     \* the Go runtime has aborted the program (fatal error)

vars == <<op, pc, ret, s, readers, writer, granted, visited, stopped,
          closed, delivered, hist, fatal>>

Procs == DOMAIN op
ResultOf(p) == Results[p]
\* every threadSafeSet there is: each has its own RWMutex and its own map
Objs == Sets \cup {ResultOf(p) : p \in Procs}

----------------------------------------------------------------------------
(* Instructions *)

I(ins, on, f) == [ins |-> ins, on |-> on, f |-> f]
RLockI(on) == I("RLock", on, "")
RUnlockI(on) == I("RUnlock", on, "")
LockI == I("Lock", "set", "")
UnlockI == I("Unlock", "set", "")
\* set.s.f(...) with the receiver in role `on`
ReadI(f) == I("Read", "set", f)
\* o := other.(*threadSafeSet)
CastI == I("Cast", "o", "")
WriteI(f) == I("Write", "set", f)

Flip(on) == IF on = "set" THEN "o" ELSE "set"
\* (set.IsSubset(other) in place of other.IsSubset(set))
SwapNot(code) == code
\* The program of a method called with receiver and argument exchanged.
Swap(code) == [i \in DOMAIN code |-> [code[i] EXCEPT !.on = Flip(@)]]

----------------------------------------------------------------------------
(* threadUnsafeSet: the unsynchronized set the wrapper delegates to *)

NoRet == [b |-> FALSE, n |-> 0, set |-> {}]
RetB(b) == [b |-> b, n |-> 0, set |-> {}]
RetN(n) == [b |-> FALSE, n |-> n, set |-> {}]
RetS(x) == [b |-> FALSE, n |-> 0, set |-> x]

UnsafeRead(f, a, b, o) ==
  CASE f = "Contains" -> RetB(o.elems \subseteq a)
    [] f = "Cardinality" -> RetN(Cardinality(a))
    [] f = "IsSubset" -> RetB(a \subseteq b)
    [] f = "IsProperSubset" -> RetB(a \subseteq b /\ a # b)
    [] f = "Equal" -> RetB(a = b)
    [] f = "Union" -> RetS(a \cup b)
    [] f = "Intersect" -> RetS(a \cap b)
    [] f = "Difference" -> RetS(a \ b)
    [] f = "SymmetricDifference" -> RetS((a \ b) \cup (b \ a))
    [] f = "CartesianProduct" -> RetS(a \X b)
    [] f = "Clone" -> RetS(a)
    [] f = "String" -> RetS(a)
    [] f = "MarshalJSON" -> RetS(a)
    [] f = "ToSlice" -> [b |-> FALSE, n |-> Cardinality(a), set |-> a]
    [] f = "PowerSet" -> RetS(SUBSET a)

\* The memberships a mutation can leave, each with the value it returns.
UnsafeWrite(f, a, o) ==
  CASE f = "Add" -> {[s |-> a \cup {o.elem}, ret |-> RetB(o.elem \notin a)]}
    [] f = "Remove" -> {[s |-> a \ {o.elem}, ret |-> NoRet]}
    [] f = "Clear" -> {[s |-> {}, ret |-> NoRet]}
    [] f = "Pop" -> IF a = {} THEN {[s |-> a, ret |-> NoRet]}
                    ELSE {[s |-> a \ {e}, ret |-> RetS({e})] : e \in a}

----------------------------------------------------------------------------
(* The methods of threadSafeSet, each as the program its body runs.  A      *)
(* deferred call runs after the return value is computed, last deferred     *)
(* first.                                                                   *)

\* (Add taking the read lock, as UnmarshalJSON does)
AddUnderRLock == <<RLockI("set"), WriteI("Add"), RUnlockI("set")>>
Add == <<LockI, WriteI("Add"), UnlockI>>
Contains == <<RLockI("set"), ReadI("Contains"), RUnlockI("set")>>
IsSubset ==
  <<CastI, RLockI("set"), RLockI("o"), ReadI("IsSubset"), RUnlockI("o"), RUnlockI("set")>>
IsProperSubset ==
  <<CastI, RLockI("set"), RLockI("o"), ReadI("IsProperSubset"), RUnlockI("o"),
    RUnlockI("set")>>
\* return other.IsSubset(set)
IsSuperset == Swap(IsSubset)
\* return other.IsProperSubset(set)
IsProperSuperset == Swap(IsProperSubset)
\* (Union locking its receiver before it looks at the argument)
UnionCastLate ==
  <<RLockI("set"), CastI, RLockI("o"), ReadI("Union"), RUnlockI("o"),
    RUnlockI("set")>>
Union ==
  <<CastI, RLockI("set"), RLockI("o"), ReadI("Union"), RUnlockI("o"), RUnlockI("set")>>
Intersect ==
  <<CastI, RLockI("set"), RLockI("o"), ReadI("Intersect"), RUnlockI("o"), RUnlockI("set")>>
Difference ==
  <<CastI, RLockI("set"), RLockI("o"), ReadI("Difference"), RUnlockI("o"), RUnlockI("set")>>
SymmetricDifference ==
  <<CastI, RLockI("set"), RLockI("o"), ReadI("SymmetricDifference"), RUnlockI("o"),
    RUnlockI("set")>>
\* (Clear returning without its Unlock)
ClearNoUnlock == <<LockI, WriteI("Clear")>>
\* Clear and Remove call Unlock directly, Add and Pop defer it.
Clear == <<LockI, WriteI("Clear"), UnlockI>>
Remove == <<LockI, WriteI("Remove"), UnlockI>>
CardinalityCode == <<RLockI("set"), ReadI("Cardinality"), RUnlockI("set")>>
\* (Each releasing the read lock before the traversal)
EachUnlockFirst == <<RLockI("set"), RUnlockI("set"), I("Visit", "set", "")>>
Each == <<RLockI("set"), I("Visit", "set", ""), RUnlockI("set")>>
\* (the visitor called after the read lock was released)
EachCallingUnlocked(f) ==
  <<RLockI("set"), RUnlockI("set"), I("Enter", "set", ""), LockI, WriteI(f),
    UnlockI, I("Visit", "set", "")>>
\* Each with a visitor that calls set.f(...) on the set being traversed: the
\* body of f runs inside the first cb(elem), before the loop goes on.
EachCalling(f) ==
  <<RLockI("set"), I("Enter", "set", ""), LockI, WriteI(f), UnlockI,
    I("Visit", "set", ""), RUnlockI("set")>>
\* (the read lock released before the channel is closed)
IteratorUnlockFirst ==
  <<I("Go", "set", ""), RLockI("set"), I("Select", "set", ""),
    RUnlockI("set"), I("Close", "set", "")>>
\* Iterator() starts the goroutine and returns; the rest is the goroutine.
Iterator ==
  <<I("Go", "set", ""), RLockI("set"), I("Select", "set", ""),
    I("Close", "set", ""), RUnlockI("set")>>
\* (Iter releasing the read lock before it hands the elements over)
IterUnlockEarly ==
  <<I("Go", "set", ""), RLockI("set"), RUnlockI("set"), I("Select", "set", ""),
    I("Close", "set", "")>>
\* Iter(): as Iterator(), but the loop body is a bare ch <- elem: the caller
\* gets no stop channel, so the loop ends only when the range is exhausted.
Iter ==
  <<I("Go", "set", ""), RLockI("set"), I("Select", "set", ""),
    I("Close", "set", ""), RUnlockI("set")>>
Equal ==
  <<CastI, RLockI("set"), RLockI("o"), ReadI("Equal"), RUnlockI("o"), RUnlockI("set")>>
Clone == <<RLockI("set"), ReadI("Clone"), RUnlockI("set")>>
String == <<RLockI("set"), ReadI("String"), RUnlockI("set")>>
\* (the result built while the read lock is still held, from the live map)
PowerSetLate ==
  <<RLockI("set"), RUnlockI("set"), ReadI("PowerSet"), I("Build", "set", "")>>
\* unsafePowerSet is computed under the read lock; the result is built from
\* it after RUnlock, one ret.Add per subset.
PowerSet ==
  <<RLockI("set"), ReadI("PowerSet"), RUnlockI("set"), I("Build", "set", "")>>
Pop == <<LockI, WriteI("Pop"), UnlockI>>
CartesianProduct ==
  <<CastI, RLockI("set"), RLockI("o"), ReadI("CartesianProduct"), RUnlockI("o"),
    RUnlockI("set")>>
\* make(..., set.Cardinality()) is a whole Cardinality call before the RLock
ToSlice == CardinalityCode \o <<RLockI("set"), ReadI("ToSlice"), RUnlockI("set")>>
MarshalJSON == <<RLockI("set"), ReadI("MarshalJSON"), RUnlockI("set")>>
UnmarshalJSON == <<RLockI("set"), I("Insert", "set", ""), RUnlockI("set")>>

Code(o) ==
  CASE o.kind = "Add" -> Add
    [] o.kind = "Contains" -> Contains
    [] o.kind = "IsSubset" -> IsSubset
    [] o.kind = "IsProperSubset" -> IsProperSubset
    [] o.kind = "IsSuperset" -> IsSuperset
    [] o.kind = "IsProperSuperset" -> IsProperSuperset
    [] o.kind = "Union" -> Union
    [] o.kind = "Intersect" -> Intersect
    [] o.kind = "Difference" -> Difference
    [] o.kind = "SymmetricDifference" -> SymmetricDifference
    [] o.kind = "Clear" -> Clear
    [] o.kind = "Remove" -> Remove
    [] o.kind = "Cardinality" -> CardinalityCode
    [] o.kind = "Each" -> Each
    [] o.kind = "EachAdd" -> EachCalling("Add")
    [] o.kind = "EachRemove" -> EachCalling("Remove")
    [] o.kind = "EachClear" -> EachCalling("Clear")
    [] o.kind = "EachPop" -> EachCalling("Pop")
    [] o.kind = "Iterator" -> Iterator
    [] o.kind = "Iter" -> Iter
    [] o.kind = "Equal" -> Equal
    [] o.kind = "Clone" -> Clone
    [] o.kind = "String" -> String
    [] o.kind = "PowerSet" -> PowerSet
    [] o.kind = "Pop" -> Pop
    [] o.kind = "CartesianProduct" -> CartesianProduct
    [] o.kind = "ToSlice" -> ToSlice
    [] o.kind = "MarshalJSON" -> MarshalJSON
    [] o.kind = "UnmarshalJSON" -> UnmarshalJSON

WriteKinds == {"Add", "Remove", "Clear", "Pop"}
\* return &threadSafeSet{s: *unsafeResult}
SetReturning ==
  {"Union", "Intersect", "Difference", "SymmetricDifference",
   "CartesianProduct", "Clone"}
BinaryKinds ==
  {"IsSubset", "IsProperSubset", "Equal", "Union", "Intersect", "Difference",
   "SymmetricDifference", "CartesianProduct"}
SupersetKinds == {"IsSuperset", "IsProperSuperset"}
UnaryReadKinds ==
  {"Contains", "Cardinality", "Clone", "String", "ToSlice", "Each",
   "MarshalJSON", "PowerSet"}

\* A call: unused fields are 0 / {} / the receiver itself.
Call(kind, set, other, elem, elems) ==
  [kind |-> kind, set |-> set, other |-> other, elem |-> elem, elems |-> elems]

----------------------------------------------------------------------------
(* Execution *)

Done(p) == pc[p] > Len(Code(op[p]))
Instr(p) == Code(op[p])[pc[p]]
IsResult(n) == \E q \in Procs : ResultOf(q) = n
Producer(n) == CHOOSE q \in Procs : ResultOf(q) = n
\* (the call returning its receiver instead of a new set)
WrapReceiver(q) == op[q].set
\* The set a constructing call hands to its caller:
\* &threadSafeSet{s: *unsafeResult}, a new struct with a zero RWMutex.
Wrap(q) == ResultOf(q)
\* The set a name stands for; a result is known by what its call returned.
Resolve(n) == IF IsResult(n) THEN Wrap(Producer(n)) ELSE n
\* A call on the result of another call starts after that call returned.
Available(p) ==
  \A n \in {op[p].set, op[p].other} : IsResult(n) => Done(Producer(n))
At(p, ins) == ~fatal /\ ~Done(p) /\ Available(p) /\ Instr(p).ins = ins
Tgt(p, on) == Resolve(IF on = "set" THEN op[p].set ELSE op[p].other)
\* An event: what was done, on which set, the membership the set had at
\* that moment, and the element concerned (0: none).
Ev(ev, x, e) == [ev |-> ev, x |-> x, m |-> s[x], e |-> e]
LogE(p, ev, x, e) == hist' = [hist EXCEPT ![p] = Append(@, Ev(ev, x, e))]
Log(p, ev, x) == LogE(p, ev, x, 0)
Step(p) == pc' = [pc EXCEPT ![p] = @ + 1]

(* sync.RWMutex *)
NReaders(x) == Cardinality({q \in Procs : readers[x][q] > 0})
\* (a plain mutex in place of the read lock)
CanRLockExclusive(x) == writer[x] = 0 /\ NReaders(x) = 0
\* RLock blocks while a writer holds or waits for the lock.
CanRLock(x) == writer[x] = 0
\* Lock first excludes other writers and announces itself to the readers ...
CanLock(x) == writer[x] = 0
\* (a writer that does not wait for the readers to leave)
CanGrantOverReaders(p, x) == writer[x] = p /\ ~granted[x]
\* ... and is granted once the readers that got in before have left.
CanGrant(p, x) == writer[x] = p /\ ~granted[x] /\ NReaders(x) = 0

(* Unsynchronized accesses to the map of one set: a data race *)
InCrit(q, x) == readers[x][q] > 0 \/ (writer[x] = q /\ granted[x])
WritesMap(q, x) ==
  op[q].set = x /\ op[q].kind \in WriteKinds \cup {"UnmarshalJSON"}
\* A read racing with a write sees the map as it is, sees it torn (entries
\* missing), or is aborted by the runtime (concurrent map read and map write).
ReadOutcomes(p, xs) ==
  IF \E x \in xs : \E q \in Procs \ {p} : InCrit(q, x) /\ WritesMap(q, x)
  THEN {"ok", "torn", "fatal"} ELSE {"ok"}
\* what a read with outcome `out` may find in a map of membership m
Seen(out, m) == IF out = "torn" THEN SUBSET m ELSE {m}
WriteOutcomes(p, x) ==
  IF \E q \in Procs \ {p} : InCrit(q, x) THEN {"ok", "lost", "fatal"} ELSE {"ok"}

\* o := other.(*threadSafeSet): a type assertion without the ok form, which
\* panics when other is of another type.  No deferred call is registered
\* before it, so the panic leaves the method with nothing undone.
Cast(p) ==
  /\ At(p, "Cast")
  /\ IF Tgt(p, Instr(p).on) \in Objs
     THEN /\ Step(p)
          /\ UNCHANGED hist
     ELSE /\ pc' = [pc EXCEPT ![p] = Len(Code(op[p])) + 1]
          /\ Log(p, "panic", op[p].set)
  /\ UNCHANGED <<op, ret, s, readers, writer, granted, visited, stopped,
                 closed, delivered, fatal>>

RLock(p) ==
  /\ At(p, "RLock")
  /\ LET x == Tgt(p, Instr(p).on) IN
       /\ CanRLock(x)
       /\ readers' = [readers EXCEPT ![x][p] = @ + 1]
       /\ Log(p, "RLock", x)
  /\ Step(p)
  /\ UNCHANGED <<op, ret, s, writer, granted, visited, stopped, closed,
                 delivered, fatal>>

RUnlock(p) ==
  /\ At(p, "RUnlock")
  /\ LET x == Tgt(p, Instr(p).on) IN
       IF readers[x][p] > 0
       THEN /\ readers' = [readers EXCEPT ![x][p] = @ - 1]
            /\ Log(p, "RUnlock", x)
            /\ Step(p)
            /\ fatal' = fatal
       ELSE \* sync: RUnlock of unlocked RWMutex
            /\ fatal' = TRUE
            /\ UNCHANGED <<readers, hist, pc>>
  /\ UNCHANGED <<op, ret, s, writer, granted, visited, stopped, closed, delivered>>

Read(p) ==
  /\ At(p, "Read")
  /\ LET i == Instr(p)
         x == Tgt(p, i.on)
         y == Tgt(p, Flip(i.on))
     IN \E out \in ReadOutcomes(p, {x, y}) :
        \E a \in Seen(out, s[x]) : \E b \in Seen(out, s[y]) :
          IF out # "fatal"
          THEN LET r == UnsafeRead(i.f, a, b, op[p]) IN
               /\ ret' = [ret EXCEPT ![p] = r]
               /\ s' = IF i.f \in SetReturning
                       THEN [s EXCEPT ![ResultOf(p)] = r.set] ELSE s
               /\ Step(p)
               /\ fatal' = fatal
          ELSE /\ fatal' = TRUE
               /\ UNCHANGED <<ret, s, pc>>
  /\ UNCHANGED <<op, readers, writer, granted, visited, stopped, closed,
                 delivered, hist>>

Lock(p) ==
  /\ At(p, "Lock")
  /\ LET x == Tgt(p, Instr(p).on) IN
       /\ writer[x] # p
       /\ CanLock(x)
       /\ writer' = [writer EXCEPT ![x] = p]
  /\ UNCHANGED <<op, pc, ret, s, readers, granted, visited, stopped, closed,
                 delivered, hist, fatal>>

LockGranted(p) ==
  /\ At(p, "Lock")
  /\ LET x == Tgt(p, Instr(p).on) IN
       /\ CanGrant(p, x)
       /\ granted' = [granted EXCEPT ![x] = TRUE]
       /\ Log(p, "Lock", x)
  /\ Step(p)
  /\ UNCHANGED <<op, ret, s, readers, writer, visited, stopped, closed,
                 delivered, fatal>>

Write(p) ==
  /\ At(p, "Write")
  /\ LET i == Instr(p)
         x == Tgt(p, i.on)
     IN \E out \in WriteOutcomes(p, x) : \E w \in UnsafeWrite(i.f, s[x], op[p]) :
          IF out = "fatal"
          THEN /\ fatal' = TRUE
               /\ UNCHANGED <<s, ret, pc>>
          ELSE /\ s' = [s EXCEPT ![x] = IF out = "ok" THEN w.s ELSE @]
               /\ ret' = [ret EXCEPT ![p] = w.ret]
               /\ Step(p)
               /\ fatal' = fatal
  /\ UNCHANGED <<op, readers, writer, granted, visited, stopped, closed,
                 delivered, hist>>

Unlock(p) ==
  /\ At(p, "Unlock")
  /\ LET x == Tgt(p, Instr(p).on) IN
       IF writer[x] = p /\ granted[x]
       THEN /\ writer' = [writer EXCEPT ![x] = 0]
            /\ granted' = [granted EXCEPT ![x] = FALSE]
            /\ Log(p, "Unlock", x)
            /\ Step(p)
            /\ fatal' = fatal
       ELSE \* sync: Unlock of unlocked RWMutex
            /\ fatal' = TRUE
            /\ UNCHANGED <<writer, granted, hist, pc>>
  /\ UNCHANGED <<op, ret, s, readers, visited, stopped, closed, delivered>>

\* UnmarshalJSON's delegation: the decoded elements are added one by one.
Insert(p) ==
  /\ At(p, "Insert")
  /\ LET x == Tgt(p, Instr(p).on)
         todo == op[p].elems \ visited[p]
     IN IF todo = {}
        THEN /\ Step(p)
             /\ UNCHANGED <<s, visited, fatal>>
        ELSE \E e \in todo : \E out \in WriteOutcomes(p, x) :
               IF out = "fatal"
               THEN /\ fatal' = TRUE
                    /\ UNCHANGED <<s, visited, pc>>
               ELSE /\ s' = [s EXCEPT ![x] = IF out = "ok" THEN @ \cup {e} ELSE @]
                    /\ visited' = [visited EXCEPT ![p] = @ \cup {e}]
                    /\ UNCHANGED <<pc, fatal>>
  /\ UNCHANGED <<op, ret, readers, writer, granted, stopped, closed, delivered,
                 hist>>

\* Each: for elem := range set.s { if cb(elem) { break } }
Visit(p) ==
  /\ At(p, "Visit")
  /\ LET x == Tgt(p, Instr(p).on)
         todo == s[x] \ visited[p]
     IN IF todo = {}
        THEN /\ Step(p)
             /\ UNCHANGED <<visited, hist, fatal>>
        ELSE \E e \in todo : \E out \in ReadOutcomes(p, {x}) : \E stop \in BOOLEAN :
               IF out = "fatal"
               THEN /\ fatal' = TRUE
                    /\ UNCHANGED <<visited, hist, pc>>
               ELSE /\ visited' = [visited EXCEPT ![p] = @ \cup {e}]
                    /\ LogE(p, IF stop THEN "break" ELSE "visit", x, e)
                    /\ pc' = [pc EXCEPT ![p] = IF stop THEN @ + 1 ELSE @]
                    /\ fatal' = fatal
  /\ UNCHANGED <<op, ret, s, readers, writer, granted, stopped, closed,
                 delivered>>

\* Each: the range reaches its first element and calls cb(elem); over an
\* empty set the loop body never runs and Each goes on to return.
Enter(p) ==
  /\ At(p, "Enter")
  /\ LET x == Tgt(p, Instr(p).on) IN
       IF s[x] = {}
       THEN /\ pc' = [pc EXCEPT ![p] = Len(Code(op[p]))]
            /\ UNCHANGED <<visited, hist, fatal>>
       ELSE \E e \in s[x] : \E out \in ReadOutcomes(p, {x}) :
              IF out = "fatal"
              THEN /\ fatal' = TRUE
                   /\ UNCHANGED <<visited, hist, pc>>
              ELSE /\ visited' = [visited EXCEPT ![p] = @ \cup {e}]
                   /\ LogE(p, "visit", x, e)
                   /\ Step(p)
                   /\ fatal' = fatal
  /\ UNCHANGED <<op, ret, s, readers, writer, granted, stopped, closed,
                 delivered>>

\* PowerSet: ret := &threadSafeSet{s: newThreadUnsafeSet()};
\* for subset := range unsafePowerSet.Iter() { ret.Add(&threadSafeSet{...}) }
\* ret is reachable by this call alone until it returns, so the order of the
\* range cannot be observed: the subsets are taken in a fixed order.
Build(p) ==
  /\ At(p, "Build")
  /\ LET r == ResultOf(p)
         todo == ret[p].set \ visited[p]
     IN IF todo = {}
        THEN /\ Step(p)
             /\ UNCHANGED <<s, visited>>
        ELSE LET sub == CHOOSE x \in todo : TRUE IN
             /\ s' = [s EXCEPT ![r] = @ \cup {sub}]
             /\ visited' = [visited EXCEPT ![p] = @ \cup {sub}]
             /\ UNCHANGED pc
  /\ UNCHANGED <<op, ret, readers, writer, granted, stopped, closed, delivered,
                 hist, fatal>>

\* Iterator(): newIterator(), go func() {...}(), return iterator
Go(p) ==
  /\ At(p, "Go")
  /\ Step(p)
  /\ UNCHANGED <<op, ret, s, readers, writer, granted, visited, stopped,
                 closed, delivered, hist, fatal>>

\* select: case ch <- elem, taken when the consumer receives
Send(p) ==
  /\ At(p, "Select")
  /\ LET x == Tgt(p, Instr(p).on) IN
       \E e \in s[x] \ visited[p] : \E out \in ReadOutcomes(p, {x}) :
         IF out = "fatal"
         THEN /\ fatal' = TRUE
              /\ UNCHANGED <<visited, delivered, hist>>
         ELSE /\ visited' = [visited EXCEPT ![p] = @ \cup {e}]
              /\ delivered' = [delivered EXCEPT ![p] = Append(@, e)]
              /\ LogE(p, "send", x, e)
              /\ fatal' = fatal
  /\ UNCHANGED <<op, pc, ret, s, readers, writer, granted, stopped, closed>>

\* (a producer whose select has no stop case)
LoopExitDeaf(p) ==
  /\ At(p, "Select")
  /\ s[Tgt(p, Instr(p).on)] \ visited[p] = {}
  /\ Log(p, "exhausted", Tgt(p, Instr(p).on))
  /\ Step(p)
  /\ UNCHANGED <<op, ret, s, readers, writer, granted, visited, stopped,
                 closed, delivered, fatal>>

\* select: case <-stopCh: break L; and the end of the range loop
LoopExit(p) ==
  /\ At(p, "Select")
  /\ LET x == Tgt(p, Instr(p).on) IN
       IF s[x] \ visited[p] = {}
       THEN Log(p, "exhausted", x)
       ELSE stopped[p] /\ Log(p, "cancelled", x)
  /\ Step(p)
  /\ UNCHANGED <<op, ret, s, readers, writer, granted, visited, stopped,
                 closed, delivered, fatal>>

\* close(ch)
Close(p) ==
  /\ At(p, "Close")
  /\ closed' = [closed EXCEPT ![p] = TRUE]
  /\ Log(p, "close", Tgt(p, Instr(p).on))
  /\ Step(p)
  /\ UNCHANGED <<op, ret, s, readers, writer, granted, visited, stopped,
                 delivered, fatal>>

\* The consumer of the iterator signals stop.
Stop(p) ==
  /\ ~fatal
  /\ op[p].kind = "Iterator"
  /\ pc[p] > 1
  /\ ~stopped[p]
  /\ stopped' = [stopped EXCEPT ![p] = TRUE]
  /\ UNCHANGED <<op, pc, ret, s, readers, writer, granted, visited, closed,
                 delivered, hist, fatal>>

----------------------------------------------------------------------------
(* Initial states *)

InitOf(ops) ==
  /\ op \in ops
  /\ pc = [p \in DOMAIN op |-> 1]
  /\ ret = [p \in DOMAIN op |-> NoRet]
  /\ \E m \in [Sets -> SUBSET Elems] :
       s = [x \in Objs |-> IF x \in Sets THEN m[x] ELSE {}]
  /\ readers = [x \in Objs |-> [p \in DOMAIN op |-> 0]]
  /\ writer = [x \in Objs |-> 0]
  /\ granted = [x \in Objs |-> FALSE]
  /\ visited = [p \in DOMAIN op |-> {}]
  /\ stopped = [p \in DOMAIN op |-> FALSE]
  /\ closed = [p \in DOMAIN op |-> FALSE]
  /\ delivered = [p \in DOMAIN op |-> <<>>]
  /\ hist = [p \in DOMAIN op |-> <<>>]
  /\ fatal = FALSE

AllDone == \A p \in Procs : Done(p)
\* p waits in RLock or Lock for something another process has to do
Blocked(p) ==
  /\ ~Done(p)
  /\ \/ Instr(p).ins = "RLock" /\ ~CanRLock(Tgt(p, Instr(p).on))
     \/ /\ Instr(p).ins = "Lock"
        /\ LET x == Tgt(p, Instr(p).on) IN
             IF writer[x] = p THEN ~CanGrant(p, x) ELSE ~CanLock(x)
\* every unfinished call waits for a lock: none of them will ever return
Deadlocked == ~AllDone /\ \A p \in Procs : Done(p) \/ Blocked(p)

----------------------------------------------------------------------------
(* Scenario D: S.Union(T) by one thread, T.Union(S) by another *)

UnionOps ==
  {<<Call("Union", "S", "T", 0, {}), Call("Union", "T", "S", 0, {})>>}
InitUnion == InitOf(UnionOps)
NextUnion ==
  \/ \E p \in Procs : Cast(p)
  \/ \E p \in Procs : RLock(p)
  \/ \E p \in Procs : Read(p)
  \/ \E p \in Procs : RUnlock(p)
SpecUnion == InitUnion /\ [][NextUnion]_vars

\* C1: S.Union(T) running concurrently with T.Union(S), nothing else touching
\* the sets, never deadlocks, and once both have returned the two results have
\* the same members, those of S and of T together.
C1_UnionBothWays ==
  /\ ~Deadlocked
  /\ ~fatal
  /\ AllDone => ret[1].set = ret[2].set /\ ret[1].set = s["S"] \cup s["T"]
C1_Witness == AllDone /\ s["S"] # s["T"] /\ s["S"] # {} /\ s["T"] # {}

----------------------------------------------------------------------------
(* S.Union(T) and T.Union(S) while S.Add(x) and T.Add(y) run *)

UnionAddOps ==
  {<<Call("Union", "S", "T", 0, {}), Call("Union", "T", "S", 0, {}),
     Call("Add", "S", "S", x, {}), Call("Add", "T", "T", y, {})>> :
     x \in Elems, y \in Elems}
InitUnionAdd == InitOf(UnionAddOps)
NextUnionAdd ==
  \/ \E p \in Procs : Cast(p)
  \/ \E p \in Procs : RLock(p)
  \/ \E p \in Procs : Read(p)
  \/ \E p \in Procs : RUnlock(p)
  \/ \E p \in Procs : Lock(p)
  \/ \E p \in Procs : LockGranted(p)
  \/ \E p \in Procs : Write(p)
  \/ \E p \in Procs : Unlock(p)
SpecUnionAdd == InitUnionAdd /\ [][NextUnionAdd]_vars

\* C2: with S.Union(T), T.Union(S), S.Add(x) and T.Add(y) running together,
\* no state is reached in which the unfinished calls all wait for a lock
\* that only another waiting call could release.
C2_NoDeadlockWithAdds == ~Deadlocked

----------------------------------------------------------------------------
(* S.UnmarshalJSON(payload) while another call runs on S *)

Payloads == SUBSET Elems \ {{}}
UnmarshalOps ==
  {<<Call("UnmarshalJSON", "S", "S", 0, py), o>> :
     py \in Payloads,
     o \in {Call("Contains", "S", "S", 0, {1}), Call("Cardinality", "S", "S", 0, {}),
            Call("ToSlice", "S", "S", 0, {}), Call("Each", "S", "S", 0, {}),
            Call("Union", "S", "T", 0, {}), Call("Equal", "T", "S", 0, {}),
            Call("Iterator", "S", "S", 0, {})}
          \cup {Call("UnmarshalJSON", "S", "S", 0, py2) : py2 \in Payloads}}
InitUnmarshal == InitOf(UnmarshalOps)
NextUnmarshal ==
  \/ \E p \in Procs : Cast(p)
  \/ \E p \in Procs : RLock(p)
  \/ \E p \in Procs : Read(p)
  \/ \E p \in Procs : RUnlock(p)
  \/ \E p \in Procs : Insert(p)
  \/ \E p \in Procs : Visit(p)
  \/ \E p \in Procs : Go(p)
  \/ \E p \in Procs : Send(p)
  \/ \E p \in Procs : LoopExit(p)
  \/ \E p \in Procs : Close(p)
  \/ \E p \in Procs : Stop(p)
SpecUnmarshal == InitUnmarshal /\ [][NextUnmarshal]_vars

\* p is between acquiring and releasing a lock of x
Inside(p, x) == InCrit(p, x)

\* C3: while UnmarshalJSON is inserting into a set, no other process is
\* inside a read operation or another UnmarshalJSON on that set.
C3_UnmarshalExclusive ==
  \A p \in Procs :
    (op[p].kind = "UnmarshalJSON" /\ ~Done(p) /\ Instr(p).ins = "Insert")
      => \A q \in Procs \ {p} : ~Inside(q, op[p].set)

----------------------------------------------------------------------------
(* A writer, a second call of any kind and a reader on S *)

ReadCalls ==
  {Call(k, "S", "S", 0, {1}) : k \in UnaryReadKinds}
    \cup {Call(k, "S", "T", 0, {}) : k \in BinaryKinds}
    \cup {Call(k, "T", "S", 0, {}) : k \in BinaryKinds}
WriteCalls == {Call(k, "S", "S", 1, {}) : k \in WriteKinds}
RWOps ==
  {<<w, o, r>> :
     w \in WriteCalls, o \in ReadCalls \cup WriteCalls,
     r \in {Call("Cardinality", "S", "S", 0, {}), Call("Equal", "T", "S", 0, {})}}
InitRW == InitOf(RWOps) /\ s["T"] = {1}
NextRW ==
  \/ \E p \in Procs : Cast(p)
  \/ \E p \in Procs : RLock(p)
  \/ \E p \in Procs : Read(p)
  \/ \E p \in Procs : RUnlock(p)
  \/ \E p \in Procs : Visit(p)
  \/ \E p \in Procs : Build(p)
  \/ \E p \in Procs : Lock(p)
  \/ \E p \in Procs : LockGranted(p)
  \/ \E p \in Procs : Write(p)
  \/ \E p \in Procs : Unlock(p)
SpecRW == InitRW /\ [][NextRW]_vars

InWrite(p, x) == op[p].kind \in WriteKinds /\ Inside(p, x)
InRead(p, x) ==
  op[p].kind \in UnaryReadKinds \cup BinaryKinds /\ Inside(p, x)

\* C4: at most one process is inside the critical section of Add, Remove,
\* Clear or Pop of a set, and while one is, no process is inside the
\* critical section of a read operation on that set.
C4_WritersExclusive ==
  /\ ~fatal
  /\ \A x \in Sets : \A p \in Procs :
       InWrite(p, x) => \A q \in Procs \ {p} : ~InWrite(q, x) /\ ~InRead(q, x)
\* a write critical section is reached while others wait for the lock
C4_Witness ==
  \E p \in Procs : InWrite(p, "S") /\ \E q \in Procs \ {p} : Blocked(q)
\* several readers inside together
C4_ReadersShare ==
  \E p, q \in Procs : p # q /\ InRead(p, "S") /\ InRead(q, "S")

----------------------------------------------------------------------------
(* NAdders goroutines add distinct elements to the empty set S, while one   *)
(* goroutine asks for the cardinality and one for the presence of them all  *)

Adders == 1..NAdders
AddOps ==
  {[p \in 1..(NAdders + 2) |->
      IF p \in Adders THEN Call("Add", "S", "S", p, {})
      ELSE IF p = NAdders + 1 THEN Call("Cardinality", "S", "S", 0, {})
      ELSE Call("Contains", "S", "S", 0, Adders)]}
InitAdd == InitOf(AddOps) /\ \A x \in Sets : s[x] = {}
NextAdd ==
  \/ \E p \in Procs : Lock(p)
  \/ \E p \in Procs : LockGranted(p)
  \/ \E p \in Procs : Write(p)
  \/ \E p \in Procs : Unlock(p)
  \/ \E p \in Procs : RLock(p)
  \/ \E p \in Procs : Read(p)
  \/ \E p \in Procs : RUnlock(p)
SpecAdd == InitAdd /\ [][NextAdd]_vars

AddersDone == \A p \in Adders : Done(p)
\* a Cardinality or Contains call computes its result
Reads(p) == pc[p] = 2 /\ pc'[p] = 3

\* C5: every one of the N Add calls returns true; once all have returned the
\* set holds exactly the N elements, and a Cardinality call made then returns
\* N and a Contains call for the N elements returns true.
C5_ConcurrentAdds ==
  /\ [](~fatal)
  /\ [](\A p \in Adders : Done(p) => ret[p].b)
  /\ [](AddersDone => s["S"] = Adders /\ Cardinality(s["S"]) = NAdders)
  /\ [][AddersDone /\ Reads(NAdders + 1) => ret'[NAdders + 1].n = NAdders]_vars
  /\ [][AddersDone /\ Reads(NAdders + 2) => ret'[NAdders + 2].b]_vars
C5_Witness ==
  /\ AllDone
  /\ ret[NAdders + 1].n = NAdders
  /\ ret[NAdders + 2].b
  /\ \A p \in Adders : ret[p].b

----------------------------------------------------------------------------
(* An Iterator on S, its consumer, and a mutation of S *)

IterProcs == 1..2
IterOps == {<<Call("Iterator", "S", "S", 0, {}), w>> : w \in WriteCalls}
InitIter == InitOf(IterOps)
NextIter ==
  \/ \E p \in Procs : Go(p)
  \/ \E p \in Procs : RLock(p)
  \/ \E p \in Procs : Send(p)
  \/ \E p \in Procs : LoopExit(p)
  \/ \E p \in Procs : Close(p)
  \/ \E p \in Procs : RUnlock(p)
  \/ \E p \in Procs : Stop(p)
  \/ \E p \in Procs : Lock(p)
  \/ \E p \in Procs : LockGranted(p)
  \/ \E p \in Procs : Write(p)
  \/ \E p \in Procs : Unlock(p)
\* Every goroutine that can run does run; the consumer is free never to
\* receive and never to stop.
FairIter ==
  \A p \in IterProcs :
    /\ WF_vars(Go(p)) /\ WF_vars(RLock(p)) /\ WF_vars(LoopExit(p))
    /\ WF_vars(Close(p)) /\ WF_vars(RUnlock(p)) /\ WF_vars(Lock(p))
    /\ WF_vars(LockGranted(p)) /\ WF_vars(Write(p)) /\ WF_vars(Unlock(p))
SpecIter == InitIter /\ [][NextIter]_vars /\ FairIter

Events(p) == [i \in DOMAIN hist[p] |-> hist[p][i].ev]
Happened(p, ev) == \E i \in DOMAIN hist[p] : hist[p][i].ev = ev
\* the producer holds the read lock and has neither run out of elements
\* nor seen the stop signal
Active(p) ==
  /\ op[p].kind = "Iterator"
  /\ Happened(p, "RLock")
  /\ ~Happened(p, "exhausted") /\ ~Happened(p, "cancelled")
Released(p) == Done(p) /\ closed[p] /\ readers[op[p].set][p] = 0

\* C6: once stop is signalled to an iterator whose producer is Active, the
\* producer terminates with the channel closed and the read lock released,
\* whether or not the consumer receives again, and the mutation of the set
\* returns.
C6_StopReleasesLock ==
  /\ (stopped[1] /\ Active(1)) ~> Released(1)
  /\ (stopped[1] /\ Active(1)) ~> (Done(2) /\ Happened(2, "Unlock"))
C6_Witness ==
  /\ Happened(1, "cancelled")
  /\ Len(delivered[1]) >= 1
  /\ Released(1)
  /\ Done(2)
  /\ Happened(2, "Unlock")

IsPrefix(a, b) == Len(a) <= Len(b) /\ \A i \in DOMAIN a : a[i] = b[i]
NotSend(ev) == ev # "send"
\* the events of p other than the hand-offs
Lifecycle(p) == SelectSeq(Events(p), NotSend)

\* C7: the producer's events are RLock, then hand-offs, then one of
\* exhausted / cancelled, then close, then RUnlock: one RLock, one close, one
\* RUnlock of a lock it holds, and no hand-off after the terminal event.
C7_IteratorLifecycle ==
  /\ ~fatal
  /\ \E t \in {"exhausted", "cancelled"} :
       IsPrefix(Lifecycle(1), <<"RLock", t, "close", "RUnlock">>)
  /\ \A i \in DOMAIN hist[1] :
       hist[1][i].ev = "send" =>
         i > 1 /\ \A j \in 1..(i - 1) : hist[1][j].ev \in {"RLock", "send"}
  /\ Done(1) => Len(Lifecycle(1)) = 4 /\ closed[1]
  /\ closed[1] <=> Happened(1, "close")
  /\ readers["S"][1] =
       (IF Happened(1, "RLock") /\ ~Happened(1, "RUnlock") THEN 1 ELSE 0)
C7_Witness ==
  /\ Done(1)
  /\ Happened(1, "exhausted")
  /\ Len(delivered[1]) = MaxElem

----------------------------------------------------------------------------
(* An Iterator on S while S is mutated or unmarshalled into *)

IterAnyOps ==
  {<<Call("Iterator", "S", "S", 0, {}), w>> :
     w \in WriteCalls \cup {Call("UnmarshalJSON", "S", "S", 0, py) : py \in Payloads}}
InitIterAny == InitOf(IterAnyOps)
NextIterAny ==
  \/ \E p \in Procs : Go(p)
  \/ \E p \in Procs : RLock(p)
  \/ \E p \in Procs : Send(p)
  \/ \E p \in Procs : LoopExit(p)
  \/ \E p \in Procs : Close(p)
  \/ \E p \in Procs : RUnlock(p)
  \/ \E p \in Procs : Stop(p)
  \/ \E p \in Procs : Lock(p)
  \/ \E p \in Procs : LockGranted(p)
  \/ \E p \in Procs : Write(p)
  \/ \E p \in Procs : Unlock(p)
  \/ \E p \in Procs : Insert(p)
SpecIterAny == InitIterAny /\ [][NextIterAny]_vars

Holds(p) == readers[op[p].set][p] > 0

\* C8: while the iterator on S is Active no Add, Remove, Clear or Pop on S is
\* inside its critical section or returns, and from the producer's RLock to
\* its RUnlock the membership of S does not change.
C8_IteratorExcludesChange ==
  /\ [](Active(1) => \A q \in Procs : ~InWrite(q, "S"))
  /\ [][Active(1) /\ Active(1)' =>
          \A q \in Procs : op[q].kind \in WriteKinds => (Done(q)' <=> Done(q))]_vars
  /\ [][Holds(1) /\ Holds(1)' => s'["S"] = s["S"]]_vars

----------------------------------------------------------------------------
(* Two-operand operations on S and T, in both operand orders *)

TwoOperandCalls ==
  {Call(k, xy[1], xy[2], 0, {}) :
     k \in BinaryKinds \cup SupersetKinds, xy \in {<<"S", "T">>, <<"T", "S">>}}
OrderOps ==
  {<<c, d>> : c \in TwoOperandCalls,
              d \in {Call(k, "T", "S", 0, {}) : k \in SupersetKinds}}
InitOrder == InitOf(OrderOps)
NextOrder ==
  \/ \E p \in Procs : Cast(p)
  \/ \E p \in Procs : RLock(p)
  \/ \E p \in Procs : Read(p)
  \/ \E p \in Procs : RUnlock(p)
SpecOrder == InitOrder /\ [][NextOrder]_vars

IsRLock(e) == e.ev = "RLock"
\* the sets p has read-locked, in the order of the RLock calls
Acquired(p) ==
  LET a == SelectSeq(hist[p], IsRLock) IN [i \in DOMAIN a |-> a[i].x]

\* C9 (as stated): every two-operand operation, IsSuperset and
\* IsProperSuperset included, read-locks the set it was called on first and
\* its argument second.
C9_ReceiverFirst ==
  \A p \in Procs :
    /\ IsPrefix(Acquired(p), <<op[p].set, op[p].other>>)
    /\ pc[p] > 3 => Len(Acquired(p)) = 2

\* C9 (amended): the eight operations that lock for themselves read-lock the
\* set they were called on first and the argument second; IsSuperset and
\* IsProperSuperset, which call the argument's IsSubset / IsProperSubset,
\* read-lock the argument first and the set they were called on second.
C9_LockOrder ==
  \A p \in Procs :
    /\ IsPrefix(Acquired(p),
                IF op[p].kind \in SupersetKinds
                THEN <<op[p].other, op[p].set>>
                ELSE <<op[p].set, op[p].other>>)
    /\ pc[p] > 3 => Len(Acquired(p)) = 2
C9_Witness ==
  \E p \in Procs :
    /\ op[p].kind = "IsSuperset" /\ op[p].set = "S" /\ op[p].other = "T"
    /\ Done(p)
    /\ Acquired(p) = <<"T", "S">>
    /\ ret[p].b = (s["T"] \subseteq s["S"])

----------------------------------------------------------------------------
(* S.IsSubset(S) or S.IsProperSubset(S) while S is added to or removed from *)

SelfOps ==
  {<<Call(k, "S", "S", 0, {}), Call(w, "S", "S", e, {})>> :
     k \in {"IsSubset", "IsProperSubset"}, w \in {"Add", "Remove"}, e \in Elems}
InitSelf == InitOf(SelfOps)
NextSelf ==
  \/ \E p \in Procs : Cast(p)
  \/ \E p \in Procs : RLock(p)
  \/ \E p \in Procs : Read(p)
  \/ \E p \in Procs : RUnlock(p)
  \/ \E p \in Procs : Lock(p)
  \/ \E p \in Procs : LockGranted(p)
  \/ \E p \in Procs : Write(p)
  \/ \E p \in Procs : Unlock(p)
SpecSelf == InitSelf /\ [][NextSelf]_vars

\* C10: S.IsSubset(S) and S.IsProperSubset(S) never end up waiting forever,
\* also with an Add or Remove on S running, and return true and false.
C10_SelfSubset ==
  /\ ~Deadlocked
  /\ Done(1) => ret[1].b = (op[1].kind = "IsSubset")

----------------------------------------------------------------------------
(* A streaming iterator whose consumer stops receiving, beside one writer *)

StreamKinds == {"Iterator", "Iter"}
HoldOps == {<<Call(k, "S", "S", 0, {}), w>> : k \in StreamKinds, w \in WriteCalls}
InitHold == InitOf(HoldOps)
NextHold ==
  \/ \E p \in Procs : Go(p)
  \/ \E p \in Procs : RLock(p)
  \/ \E p \in Procs : Send(p)
  \/ \E p \in Procs : LoopExit(p)
  \/ \E p \in Procs : Close(p)
  \/ \E p \in Procs : RUnlock(p)
  \/ \E p \in Procs : Stop(p)
  \/ \E p \in Procs : Lock(p)
  \/ \E p \in Procs : LockGranted(p)
  \/ \E p \in Procs : Write(p)
  \/ \E p \in Procs : Unlock(p)
SpecHold == InitHold /\ [][NextHold]_vars

\* the producer waits at the hand-off: elements are left, no stop was signalled
Parked(p) ==
  /\ At(p, "Select")
  /\ s[op[p].set] \ visited[p] # {}
  /\ ~stopped[p]
\* a step in which the consumer of p's iterator neither receives nor stops
ConsumerIdle(p) == delivered'[p] = delivered[p] /\ stopped'[p] = stopped[p]

\* C11: while the producer of Iterator() or Iter() waits at the hand-off with
\* elements left and no stop signalled, it holds the read lock and no writer
\* is inside the set; and as long as the consumer neither receives nor signals
\* stop, every step leaves the producer waiting there and leaves every Add,
\* Remove, Clear and Pop on the set where it was: none of them gets the lock.
C11_UndrainedHoldsLock ==
  /\ [](Parked(1) => Holds(1) /\ \A q \in Procs : ~InWrite(q, "S"))
  /\ [][Parked(1) /\ ConsumerIdle(1) =>
          Parked(1)' /\ \A q \in Procs \ {1} : pc'[q] = pc[q]]_vars
\* Iter() has handed over one element of two and a writer waits in Lock
C11_Witness ==
  /\ op[1].kind = "Iter"
  /\ Parked(1)
  /\ Len(delivered[1]) = 1
  /\ writer["S"] = 2 /\ Blocked(2)

----------------------------------------------------------------------------
(* A call that constructs a set; then a mutation of the set it returned,    *)
(* beside a mutation of the operand S                                        *)

Constructing ==
  {Call(k, "S", "T", 0, {}) : k \in SetReturning \ {"Clone"}}
    \cup {Call(k, "S", "S", 0, {}) : k \in {"Clone", "PowerSet"}}
\* CartesianProduct and PowerSet return sets of pairs / of sets: an element
\* of S is no member of theirs, and Add/Remove of it is left to the others.
OnResult(c) ==
  {Call("Clear", ResultOf(1), ResultOf(1), 0, {})}
    \cup IF c.kind \in {"CartesianProduct", "PowerSet"} THEN {}
         ELSE {Call(k, ResultOf(1), ResultOf(1), 1, {}) : k \in {"Add", "Remove"}}
ResultOps ==
  {<<c, r, w>> :
     c \in Constructing, r \in UNION {OnResult(d) : d \in Constructing},
     w \in WriteCalls}
InitResult ==
  /\ InitOf(ResultOps)
  /\ op[2] \in OnResult(op[1])
NextResult ==
  \/ \E p \in Procs : Cast(p)
  \/ \E p \in Procs : RLock(p)
  \/ \E p \in Procs : Read(p)
  \/ \E p \in Procs : RUnlock(p)
  \/ \E p \in Procs : Build(p)
  \/ \E p \in Procs : Lock(p)
  \/ \E p \in Procs : LockGranted(p)
  \/ \E p \in Procs : Write(p)
  \/ \E p \in Procs : Unlock(p)
SpecResult == InitResult /\ [][NextResult]_vars

\* p holds or waits for the lock of x
OnLock(p, x) == readers[x][p] > 0 \/ writer[x] = p
\* a step of p's call
Advances(p) == pc'[p] # pc[p]

\* C12: the set returned by Union, Intersect, Difference, SymmetricDifference,
\* CartesianProduct, Clone or PowerSet is a new set with a lock and a storage
\* of its own: once the call has returned it holds no lock; a call on the
\* result never holds or waits for a lock of S or T and is never blocked, a
\* call on S never holds or waits for the result's lock and is blocked only
\* by the constructing call's read lock; a step of the mutation of the
\* result leaves S and T as they were, and a step of the mutation of S leaves
\* the result as it was.
C12_ResultsIndependent ==
  /\ [](Done(1) => \A x \in Objs : ~OnLock(1, x))
  /\ [](\A x \in Sets : ~OnLock(2, x))
  /\ [](~OnLock(3, ResultOf(1)))
  /\ [](~Blocked(2))
  /\ [](Blocked(3) => readers["S"][1] > 0)
  /\ [][Advances(2) => s'["S"] = s["S"] /\ s'["T"] = s["T"]]_vars
  /\ [][Advances(3) => s'[ResultOf(1)] = s[ResultOf(1)]]_vars
\* the union {1,2} was returned and then cleared, which left S alone; 1 was
\* removed from S, which left the result alone
C12_Witness ==
  /\ AllDone
  /\ op[1].kind = "Union" /\ op[2].kind = "Clear" /\ op[3].kind = "Remove"
  /\ ret[1].set = {1, 2} /\ s[ResultOf(1)] = {}
  /\ s["S"] = {2} /\ Happened(3, "Unlock")

----------------------------------------------------------------------------
(* S.PowerSet() beside one mutation of S *)

PowerOps == {<<Call("PowerSet", "S", "S", 0, {}), w>> : w \in WriteCalls}
InitPower == InitOf(PowerOps)
NextPower ==
  \/ \E p \in Procs : RLock(p)
  \/ \E p \in Procs : Read(p)
  \/ \E p \in Procs : RUnlock(p)
  \/ \E p \in Procs : Build(p)
  \/ \E p \in Procs : Lock(p)
  \/ \E p \in Procs : LockGranted(p)
  \/ \E p \in Procs : Write(p)
  \/ \E p \in Procs : Unlock(p)
SpecPower == InitPower /\ [][NextPower]_vars

\* the membership the receiver had when p's first lock call returned
LockedMembers(p) == hist[p][1].m
\* p is in the loop that builds the result, or beyond it
Building(p) == pc[p] >= Len(PowerSet)
\* a step of p's call, loop iterations included
Acts(p) == pc'[p] # pc[p] \/ visited'[p] # visited[p]

\* C13: PowerSet returns a new set whose members are exactly the subsets of
\* the membership S had while the call held the read lock, 2^n of them for n
\* elements; nothing is put into the result before the read lock of S has
\* been released and the call holds no lock of S while it builds; no step of
\* the call changes S; and a mutation of S at any time, also while the result
\* is being built, leaves the result as these subsets.
C13_PowerSet ==
  /\ [](Done(1) =>
          /\ s[Resolve(ResultOf(1))] = SUBSET LockedMembers(1)
          /\ Cardinality(s[Resolve(ResultOf(1))]) = 2 ^ Cardinality(LockedMembers(1)))
  /\ [](Building(1) => ~OnLock(1, "S") /\ s[ResultOf(1)] \subseteq SUBSET LockedMembers(1))
  /\ [](~Building(1) => s[ResultOf(1)] = {})
  /\ [][Acts(1) => s'["S"] = s["S"]]_vars
\* S was {1,2} under the read lock and has been cleared since; the result has
\* the four subsets
C13_Witness ==
  /\ AllDone
  /\ op[2].kind = "Clear" /\ s["S"] = {}
  /\ LockedMembers(1) = {1, 2}
  /\ s[ResultOf(1)] = {{}, {1}, {2}, {1, 2}}

----------------------------------------------------------------------------
(* S.Each(cb) beside one mutation of S *)

EachOps == {<<Call("Each", "S", "S", 0, {}), w>> : w \in WriteCalls}
InitEach == InitOf(EachOps)
NextEach ==
  \/ \E p \in Procs : RLock(p)
  \/ \E p \in Procs : Visit(p)
  \/ \E p \in Procs : RUnlock(p)
  \/ \E p \in Procs : Lock(p)
  \/ \E p \in Procs : LockGranted(p)
  \/ \E p \in Procs : Write(p)
  \/ \E p \in Procs : Unlock(p)
SpecEach == InitEach /\ [][NextEach]_vars

\* the positions in p's history at which the visitor was called
Visits(p) == {i \in DOMAIN hist[p] : hist[p][i].ev \in {"visit", "break"}}
Visited(p) == {hist[p][i].e : i \in Visits(p)}

\* C14: every call of the visitor comes after Each's RLock and before its
\* RUnlock, for an element of the membership S had at the RLock, no element
\* twice, and with S's membership still the one of the RLock: no Add, Remove,
\* Clear or Pop takes effect between two visits.  After the visit whose
\* visitor returned true nothing follows but the RUnlock.  A traversal not
\* cut short visits the whole membership, and a call that has returned,
\* either way, has released the read lock.
C14_EachUnderLock ==
  /\ [](\A i \in Visits(1) :
          /\ i > 1 /\ hist[1][1].ev = "RLock"
          /\ \A j \in 1..i : hist[1][j].ev # "RUnlock"
          /\ hist[1][i].e \in LockedMembers(1)
          /\ hist[1][i].m = LockedMembers(1)
          /\ \A j \in Visits(1) : j # i => hist[1][j].e # hist[1][i].e
          /\ hist[1][i].ev = "break" =>
               \A j \in DOMAIN hist[1] : j > i => hist[1][j].ev = "RUnlock")
  /\ [](Done(1) =>
          /\ ~OnLock(1, "S")
          /\ hist[1][Len(hist[1])].ev = "RUnlock"
          /\ ~Happened(1, "break") => Visited(1) = LockedMembers(1))
  /\ [][Holds(1) /\ Holds(1)' => s'["S"] = s["S"]]_vars
\* the visitor stopped the traversal of {1,2} at the first element; the
\* mutation went through afterwards
C14_Witness ==
  /\ AllDone
  /\ LockedMembers(1) = {1, 2}
  /\ Happened(1, "break") /\ Cardinality(Visited(1)) = 1
  /\ s["S"] # {1, 2}

----------------------------------------------------------------------------
(* S.Each(cb) whose visitor mutates S, beside one other call on S *)

ReenterKinds == {"EachAdd", "EachRemove", "EachClear", "EachPop"}
ReenterOps ==
  {<<Call(k, "S", "S", e, {}), c>> :
     k \in ReenterKinds, e \in Elems,
     c \in WriteCalls \cup {Call("Contains", "S", "S", 0, {1})}}
InitReenter == InitOf(ReenterOps)
NextReenter ==
  \/ \E p \in Procs : RLock(p)
  \/ \E p \in Procs : Enter(p)
  \/ \E p \in Procs : Read(p)
  \/ \E p \in Procs : RUnlock(p)
  \/ \E p \in Procs : Lock(p)
  \/ \E p \in Procs : LockGranted(p)
  \/ \E p \in Procs : Write(p)
  \/ \E p \in Procs : Unlock(p)
SpecReenter == InitReenter /\ [][NextReenter]_vars

\* C15: once the visitor of S.Each has been called and calls Add, Remove,
\* Clear or Pop on S, that Each call has not returned and never does: it
\* stays at the Lock call of the mutation with its own read lock held, the
\* write lock is never granted to it, and a Lock call it has announced is
\* blocked in every later state.  No step of the call changes S.
C15_VisitorBlocks ==
  /\ [](Happened(1, "visit") =>
          /\ ~Done(1) /\ Instr(1).ins = "Lock"
          /\ Holds(1)
          /\ ~Happened(1, "Lock"))
  /\ [](writer["S"] = 1 => Blocked(1))
  /\ [][Happened(1, "visit") => pc'[1] = pc[1] /\ Holds(1)']_vars
  /\ [][Acts(1) => s'["S"] = s["S"]]_vars
\* the visitor's Add waits for the read lock of its own Each, and the other
\* call waits behind it
C15_Witness ==
  /\ op[1].kind = "EachAdd"
  /\ Happened(1, "visit")
  /\ writer["S"] = 1 /\ Blocked(1)
  /\ ~Done(2) /\ Blocked(2)

----------------------------------------------------------------------------
(* A binary operation on S and T beside a mutation of S and one of T *)

AtomicOps ==
  {<<Call(k, "S", "T", 0, {}), w, Call("Add", "T", "T", 2, {})>> :
     k \in BinaryKinds, w \in WriteCalls}
InitAtomic == InitOf(AtomicOps)
NextAtomic ==
  \/ \E p \in Procs : Cast(p)
  \/ \E p \in Procs : RLock(p)
  \/ \E p \in Procs : Read(p)
  \/ \E p \in Procs : RUnlock(p)
  \/ \E p \in Procs : Lock(p)
  \/ \E p \in Procs : LockGranted(p)
  \/ \E p \in Procs : Write(p)
  \/ \E p \in Procs : Unlock(p)
SpecAtomic == InitAtomic /\ [][NextAtomic]_vars

\* p holds the read locks of both operands
HoldsBoth(p) == readers[op[p].set][p] > 0 /\ readers[op[p].other][p] > 0
\* The operation applied to the membership S had when the call got S's read
\* lock and the membership T had when it then got T's: the memberships of
\* the instant from which both locks are held.
AtLockInstant(p) ==
  UnsafeRead(op[p].kind, hist[p][1].m, hist[p][2].m, op[p])

\* C16: under every interleaving with an Add, Remove, Clear or Pop on S and
\* an Add on T, a binary operation on S and T that has returned has returned the
\* mathematical operation on the memberships S and T had at one instant, the
\* one at which it held both read locks; while it holds both, neither
\* membership changes and no mutation is inside either set.
C16_BinaryAtomic ==
  /\ [](Done(1) => ret[1] = AtLockInstant(1))
  /\ [](HoldsBoth(1) =>
          /\ hist[1][1].m = s["S"] /\ hist[1][2].m = s["T"]
          /\ \A q \in Procs : \A x \in Sets : ~InWrite(q, x))
  /\ [][HoldsBoth(1) /\ HoldsBoth(1)' =>
          s'["S"] = s["S"] /\ s'["T"] = s["T"]]_vars
\* S.Equal(T) returned true, and S and T have been changed since
C16_Witness ==
  /\ AllDone
  /\ op[1].kind = "Equal" /\ ret[1].b
  /\ s["S"] # s["T"]
  /\ hist[1][1].m = {1} /\ s["S"] # {1} /\ s["T"] # {1}

----------------------------------------------------------------------------
(* A drained Iterator beside any one mutation of S *)

\* the elements the consumer of p's iterator has received
Delivered(p) == {delivered[p][i] : i \in DOMAIN delivered[p]}
Sends(p) == {i \in DOMAIN hist[p] : hist[p][i].ev = "send"}

\* C17: an iterator drained to the end has delivered exactly the membership
\* S had when the producer acquired the read lock, each element once; and at
\* every hand-off S still has that membership: no mutation takes effect
\* between the first and the last delivered element.
C17_DrainedDelivers ==
  /\ Happened(1, "exhausted") =>
       /\ Delivered(1) = LockedMembers(1)
       /\ Len(delivered[1]) = Cardinality(LockedMembers(1))
  /\ \A i \in Sends(1) : hist[1][i].m = LockedMembers(1)

----------------------------------------------------------------------------
(* Any one method on S, beside an Add, a Union or an Iter on the same sets *)

AnyCalls ==
  ReadCalls \cup WriteCalls
    \cup {Call(k, "S", "T", 0, {}) : k \in SupersetKinds}
    \cup {Call("IsSubset", "S", "S", 0, {})}
    \cup {Call("UnmarshalJSON", "S", "S", 0, e) : e \in Payloads}
BalanceOps ==
  {<<c, d>> :
     c \in AnyCalls,
     d \in {Call("Add", "S", "S", 2, {}), Call("Union", "T", "S", 0, {}),
            Call("Iter", "S", "S", 0, {})}}
InitBalance == InitOf(BalanceOps) /\ s["T"] = {1}
NextBalance ==
  \/ \E p \in Procs : Cast(p)
  \/ \E p \in Procs : RLock(p)
  \/ \E p \in Procs : Read(p)
  \/ \E p \in Procs : RUnlock(p)
  \/ \E p \in Procs : Visit(p)
  \/ \E p \in Procs : Build(p)
  \/ \E p \in Procs : Insert(p)
  \/ \E p \in Procs : Lock(p)
  \/ \E p \in Procs : LockGranted(p)
  \/ \E p \in Procs : Write(p)
  \/ \E p \in Procs : Unlock(p)
  \/ \E p \in Procs : Go(p)
  \/ \E p \in Procs : Send(p)
  \/ \E p \in Procs : LoopExit(p)
  \/ \E p \in Procs : Close(p)
SpecBalance == InitBalance /\ [][NextBalance]_vars

\* the lock calls of kind ev that p has made on x and that have returned
Count(p, ev, x) ==
  Cardinality({i \in DOMAIN hist[p] : hist[p][i].ev = ev /\ hist[p][i].x = x})

\* C18: a call other than Iter/Iterator that has returned holds no lock and
\* has made as many RUnlock as RLock calls, and as many Unlock as Lock
\* calls, on every set; when every call has returned and every producer has
\* exited, every lock has no reader and no writer; and a call that is about
\* to release a lock holds that lock in that mode.
C18_LockBalance ==
  /\ \A p \in Procs : (op[p].kind \notin StreamKinds /\ Done(p)) =>
       \A x \in Objs :
         /\ ~OnLock(p, x)
         /\ Count(p, "RLock", x) = Count(p, "RUnlock", x)
         /\ Count(p, "Lock", x) = Count(p, "Unlock", x)
  /\ AllDone => \A x \in Objs : NReaders(x) = 0 /\ writer[x] = 0 /\ ~granted[x]
  /\ \A p \in Procs : ~Done(p) =>
       LET x == Tgt(p, Instr(p).on) IN
         /\ Instr(p).ins = "RUnlock" => readers[x][p] > 0
         /\ Instr(p).ins = "Unlock" => writer[x] = p /\ granted[x]
\* ToSlice (two read-lock rounds) and an Iter drained to the end have both
\* finished
C18_Witness ==
  /\ AllDone
  /\ op[1].kind = "ToSlice" /\ Count(1, "RUnlock", "S") = 2
  /\ op[2].kind = "Iter" /\ Len(delivered[2]) = 2

----------------------------------------------------------------------------
(* A binary operation on S given a Set of another implementation *)

ForeignOps ==
  {<<Call(k, "S", o, 0, {}), c>> :
     k \in BinaryKinds, o \in {Foreign, "T"},
     c \in WriteCalls \cup {Call("Contains", "S", "S", 0, {1})}}
InitForeign == InitOf(ForeignOps)
NextForeign ==
  \/ \E p \in Procs : Cast(p)
  \/ \E p \in Procs : RLock(p)
  \/ \E p \in Procs : Read(p)
  \/ \E p \in Procs : RUnlock(p)
  \/ \E p \in Procs : Lock(p)
  \/ \E p \in Procs : LockGranted(p)
  \/ \E p \in Procs : Write(p)
  \/ \E p \in Procs : Unlock(p)
SpecForeign == InitForeign /\ [][NextForeign]_vars

\* C19: a binary operation whose argument is not a *threadSafeSet fails at
\* its first statement: it never acquires a lock, and when it has failed it
\* holds no lock and has made no lock call; an operation given a
\* *threadSafeSet does not fail.  No step of either changes the receiver.
C19_ForeignOperand ==
  /\ [](op[1].other = Foreign =>
          /\ pc[1] = 1 \/ (Done(1) /\ Happened(1, "panic"))
          /\ Events(1) \in {<<>>, <<"panic">>}
          /\ \A x \in Objs : ~OnLock(1, x))
  /\ [](op[1].other # Foreign => ~Happened(1, "panic"))
  /\ [][Acts(1) => s'["S"] = s["S"]]_vars
\* S.Union(U) has failed while an Add was inside S
C19_Witness ==
  /\ op[1].kind = "Union" /\ op[1].other = Foreign
  /\ Happened(1, "panic")
  /\ op[2].kind = "Add" /\ InWrite(2, "S")
====
